---- MODULE Spec2Model ----
(***************************************************************************)
(* bountycatch: named sets of domain names ("projects") kept in a Redis    *)
(* set.  The model covers DataStore, DomainValidator, Project and the      *)
(* command dispatch of main().  Text is a sequence of one-character        *)
(* strings; the store holds UTF-8 byte strings (sequences of numbers).     *)
(***************************************************************************)
EXTENDS Integers, Sequences, FiniteSets, TLC

\* ------------------------------------------------------------------ bounds

\* The longest input file, in lines.
MaxLines == 3

\* The most store calls that fail during one ingestion.
MaxFailures == 1

\* The longest input file, in lines, of an ingestion that runs beside
\* another one.
MaxConcurrentLines == 2

\* The longest string, in characters, of the enumerated inputs of the
\* validator.
MaxCandidateLen == 4

\* ------------------------------------------------------------- characters

Letters ==
    {"a", "b", "c", "d", "e", "f", "g", "h", "i", "j", "k", "l", "m",
     "n", "o", "p", "q", "r", "s", "t", "u", "v", "w", "x", "y", "z",
     "A", "B", "C", "D", "E", "F", "G", "H", "I", "J", "K", "L", "M",
     "N", "O", "P", "Q", "R", "S", "T", "U", "V", "W", "X", "Y", "Z"}

Digits == {"0", "1", "2", "3", "4", "5", "6", "7", "8", "9"}

\* The class [a-zA-Z0-9] of DOMAIN_PATTERN.
Alnum == Letters \cup Digits

\* The class [a-zA-Z0-9-] of DOMAIN_PATTERN.
AlnumHyphen == Alnum \cup {"-"}

\* The ASCII characters str.strip() removes.
Whitespace == {" ", "\t", "\n", "\r", "\f"}

\* The printable ASCII characters from 32 (space) to 95, in code order.
PrintableLow ==
    <<" ", "!", "\"", "#", "$", "%", "&", "'", "(", ")", "*", "+", ",", "-",
      ".", "/", "0", "1", "2", "3", "4", "5", "6", "7", "8", "9", ":", ";",
      "<", "=", ">", "?", "@", "A", "B", "C", "D", "E", "F", "G", "H", "I",
      "J", "K", "L", "M", "N", "O", "P", "Q", "R", "S", "T", "U", "V", "W",
      "X", "Y", "Z", "[", "\\", "]", "^", "_">>

\* The printable ASCII characters from 97 to 126, in code order (96, the
\* grave accent, cannot be written in a string of this notation).
PrintableHigh ==
    <<"a", "b", "c", "d", "e", "f", "g", "h", "i", "j", "k", "l", "m", "n",
      "o", "p", "q", "r", "s", "t", "u", "v", "w", "x", "y", "z", "{", "|",
      "}", "~">>

\* The code of the first character of PrintableLow.
FirstLow == 32

\* The code of the first character of PrintableHigh.
FirstHigh == 97

\* The control characters that are whitespace, with their codes.
ControlCodes == {<<"\t", 9>>, <<"\n", 10>>, <<"\f", 12>>, <<"\r", 13>>}

\* Every character of the model with its code.
CodeTable ==
    ControlCodes
        \cup {<<PrintableLow[i], i + FirstLow - 1>> : i \in 1..Len(PrintableLow)}
        \cup {<<PrintableHigh[i], i + FirstHigh - 1>> : i \in 1..Len(PrintableHigh)}

Characters == {p[1] : p \in CodeTable}

Codes == {p[2] : p \in CodeTable}

OrdOf == [c \in Characters |-> (CHOOSE p \in CodeTable : p[1] = c)[2]]

ChrOf == [n \in Codes |-> (CHOOSE p \in CodeTable : p[2] = n)[1]]

\* The UTF-8 byte of an ASCII character (what redis-py's encoder sends).
Ord(c) == OrdOf[c]

\* The character of an ASCII byte.
Chr(n) == ChrOf[n]

\* str -> bytes, as redis-py encodes a member before SADD.
Encode(s) == [i \in 1..Len(s) |-> Ord(s[i])]

\* bytes.decode('utf-8') of get_domains.
Decode(b) == [i \in 1..Len(b) |-> Chr(b[i])]

\* str.lower() on one character.
LowerChar(c) ==
    IF c \in Letters /\ Ord(c) < Ord("a") THEN Chr(Ord(c) + (Ord("a") - Ord("A")))
    ELSE c

\* str.lower().
Lower(s) == [i \in 1..Len(s) |-> LowerChar(s[i])]

\* str.strip(): drop the leading and trailing whitespace.
RECURSIVE LStrip(_)
LStrip(s) ==
    IF s # <<>> /\ Head(s) \in Whitespace THEN LStrip(Tail(s)) ELSE s

RECURSIVE RStrip(_)
RStrip(s) ==
    IF s # <<>> /\ s[Len(s)] \in Whitespace
    THEN RStrip(SubSeq(s, 1, Len(s) - 1))
    ELSE s

Strip(s) == RStrip(LStrip(s))

\* a < b for str: by code point, a proper prefix first.
RECURSIVE StrLess(_, _)
StrLess(a, b) ==
    IF b = <<>> THEN FALSE
    ELSE IF a = <<>> THEN TRUE
    ELSE IF Head(a) # Head(b) THEN Ord(Head(a)) < Ord(Head(b))
    ELSE StrLess(Tail(a), Tail(b))

\* sorted(domains): the strings of a set in increasing order.
RECURSIVE sorted(_)
sorted(S) ==
    IF S = {} THEN <<>>
    ELSE LET least == CHOOSE x \in S : \A y \in S \ {x} : StrLess(x, y)
         IN  <<least>> \o sorted(S \ {least})

\* The decimal digits, in order.
DigitSeq == <<"0", "1", "2", "3", "4", "5", "6", "7", "8", "9">>

\* f"{n}" for n >= 0.
RECURSIVE Decimal(_)
Decimal(n) ==
    IF n < 10 THEN <<DigitSeq[n + 1]>>
    ELSE Append(Decimal(n \div 10), DigitSeq[(n % 10) + 1])

\* ------------------------------------------------------- DomainValidator

\* len(domain) > 253 is rejected.
MaxDomainLen == 253

\* The {0,61} of a label's middle part.
MaxLabelMiddle == 61

\* s cut at every "." (the parts may be empty), in order: a part starts at
\* the first character and after every dot and runs up to the next dot.
SplitDots(s) ==
    LET dots == {i \in 1..Len(s) : s[i] = "."}
        starts == {1} \cup {d + 1 : d \in dots}
        start(k) == CHOOSE lo \in starts :
                        Cardinality({x \in starts : x < lo}) = k - 1
        end(lo) == IF \E d \in dots : d >= lo
                   THEN (CHOOSE d \in dots :
                             d >= lo /\ \A e \in dots : e >= lo => d <= e) - 1
                   ELSE Len(s)
    IN  [k \in 1..Cardinality(starts) |-> SubSeq(s, start(k), end(start(k)))]

\* [a-zA-Z0-9](?:[a-zA-Z0-9-]{0,61}[a-zA-Z0-9])?
IsLabel(l) ==
    /\ Len(l) >= 1
    /\ l[1] \in Alnum
    /\ \/ Len(l) = 1
       \/ /\ l[Len(l)] \in Alnum
          /\ Len(l) - 2 <= MaxLabelMiddle
          /\ \A i \in 2..(Len(l) - 1) : l[i] \in AlnumHyphen

\* ^(?:label\.)+label at the very end of s.
MatchesToEnd(s) ==
    LET parts == SplitDots(s)
    IN  /\ Len(parts) >= 2
        /\ \A i \in 1..Len(parts) : IsLabel(parts[i])

\* DOMAIN_PATTERN.match(domain): in Python "$" matches at the end of the
\* string and also just before a newline that ends the string.
PatternMatch(s) ==
    \/ MatchesToEnd(s)
    \/ /\ s # <<>>
       /\ s[Len(s)] = "\n"
       /\ MatchesToEnd(SubSeq(s, 1, Len(s) - 1))

is_valid_domain(domain) ==
    IF domain = <<>> \/ Len(domain) > MaxDomainLen THEN FALSE
    ELSE PatternMatch(domain)

\* ------------------------------------------------------------- the store

\* The project every command is given (-p).
name == <<"p", "1">>

\* How a call to the store may end: with its reply, with a RedisError
\* before the command is applied, or with a RedisError (a timeout) after
\* the store applied it.
WriteOutcomes == {"ok", "error", "lost"}

\* How a read of the store may end.
ReadOutcomes == {"ok", "error"}

\* SADD key member: 1 when the member is new, 0 when it is present.
SaddReply(members, member) == IF member \in members THEN 0 ELSE 1

\* DEL key: the number of keys removed (a set with no member is no key).
DelReply(members) == IF members = {} THEN 0 ELSE 1

\* add_domain reporting every add that did not raise as new.
add_domain_always_new(members, domain, outcome) ==
    [raised |-> outcome # "ok",
     value  |-> IF outcome = "ok" THEN 1 ELSE 0,
     store  |-> IF outcome = "error" THEN members
                ELSE members \cup {Encode(domain)}]

\* DataStore.add_domain: the reply of SADD, or the RedisError re-raised.
add_domain(members, domain, outcome) ==
    [raised |-> outcome # "ok",
     value  |-> IF outcome = "ok" THEN SaddReply(members, Encode(domain)) ELSE 0,
     store  |-> IF outcome = "error" THEN members
                ELSE members \cup {Encode(domain)}]

\* DataStore.get_domains: SMEMBERS, the raw members.
get_raw_domains(members, outcome) ==
    [raised |-> outcome # "ok",
     value  |-> IF outcome = "ok" THEN members ELSE {}]

\* delete_project with a DEL that removes nothing.
delete_project_keeps_members(members, outcome) ==
    [raised |-> outcome # "ok",
     value  |-> IF outcome = "ok" THEN DelReply(members) ELSE 0,
     store  |-> members]

\* DataStore.delete_project: the reply of DEL.
delete_project(members, outcome) ==
    [raised |-> outcome # "ok",
     value  |-> IF outcome = "ok" THEN DelReply(members) ELSE 0,
     store  |-> IF outcome = "error" THEN members ELSE {}]

\* DataStore.project_exists: bool(EXISTS key).
project_exists(members, outcome) ==
    [raised |-> outcome # "ok",
     value  |-> outcome = "ok" /\ members # {}]

\* DataStore.count_domains: SCARD, 0 for a key that does not exist.
store_count_domains(members, outcome) ==
    [raised |-> outcome # "ok",
     value  |-> IF outcome = "ok" THEN Cardinality(members) ELSE 0]

\* DataStore.deduplicate: a placeholder that touches nothing.
deduplicate(members) == TRUE

\* ------------------------------------------------------------ input files

\* The lines an input file may hold, as iteration over the file yields them.
LineExample == <<"e", "x", "a", "m", "p", "l", "e", ".", "c", "o", "m", "\n">>
LineTest    == <<" ", "t", "e", "s", "t", ".", "c", "o", "m", " ", "\n">>
LineBad     == <<"b", "a", "d", "_", "d", "o", "m", "a", "i", "n", "\n">>
LineBlank   == <<"\n">>

LinePool == {LineExample, LineTest, LineBad, LineBlank}

\* Every file of at most MaxLines lines.
Files == UNION {[1..n -> LinePool] : n \in 0..MaxLines}

\* ------------------------------------------------------------------ state

VARIABLES
    store,             \* the members of the project's set in Redis (bytes)
    out_file,          \* the file at the output path of the running command
    pc,                \* "idle" (no process), "ingest" (in the loop over the
                       \* lines), "done" (main has returned or raised)
    cmd,               \* the command that runs or ran last
    args,              \* its arguments
    file_lines,        \* add: the lines of the input file
    line_num,          \* add: the line the loop reads next
    total_domains,     \* add: lines submitted to the store
    new_domains,       \* add: sum of the replies of SADD
    invalid_domains,   \* add: lines the validator rejected
    duplicate_domains, \* add: total_domains - new_domains, of the report
    ret,               \* what the Project method returned ("raised": it raised)
    count,             \* the number returned when ret = "int"
    exit_code,         \* the exit status of the process, -1 before it ends
    log,               \* the log records of the command
    stdout,            \* the lines the command printed
    calls,             \* history: the calls of the command to the store and
                       \* to the output file, in order
    store0,            \* history: the members when the command started
    out0,              \* history: the output file when the command started
    added_since_delete, \* history: the domains whose SADD the store
                       \* executed since the last DEL it executed
    candidate,         \* validator: the string handed to is_valid_domain
    valid,             \* validator: what it returned ("unset" before the call)
    config_file,       \* configuration: the file at the --config path
    environ,           \* configuration: the environment of the process
    config,            \* configuration: self.config ("unset" before the load)
    ingests            \* concurrent ingestions: the locals of each process

vars == <<store, out_file, pc, cmd, args, file_lines, line_num, total_domains,
          new_domains, invalid_domains, duplicate_domains, ret, count,
          exit_code, log, stdout, calls, store0, out0, added_since_delete,
          candidate, valid, config_file, environ, config, ingests>>

\* The state of the validator, of the configuration and of the concurrent
\* ingestions, which the commands of one process leave alone.
aside == <<candidate, valid, config_file, environ, config, ingests>>

\* The output path holds no file.
Absent == [kind |-> "absent", domains |-> <<>>, domain_count |-> 0,
           project |-> <<>>, whole |-> TRUE]

\* The output path holds a file written before the command.
OldFile == [kind |-> "old", domains |-> <<>>, domain_count |-> 0,
            project |-> <<>>, whole |-> TRUE]

\* stdin: "unused" when the command does not prompt, "line" when the user
\* answered the prompt with `response`, "eof" when there was no answer.
NoArgs == [validate |-> TRUE, format |-> <<>>, confirm |-> FALSE,
           stdin |-> "unused", response |-> <<>>, caller |-> "main"]

\* One entry of the history of calls: the operation, its argument, how it
\* ended and the number it returned (0 when it raised).
Call(op, member, outcome, reply) ==
    [op |-> op, member |-> member, outcome |-> outcome, reply |-> reply]

\* No process runs: the store is empty and nothing has been printed.
MainIdle ==
    /\ store = {}
    /\ out_file = Absent
    /\ pc = "idle"
    /\ cmd = "none"
    /\ args = NoArgs
    /\ file_lines = <<>>
    /\ line_num = 0
    /\ total_domains = 0
    /\ new_domains = 0
    /\ invalid_domains = 0
    /\ duplicate_domains = 0
    /\ ret = "unset"
    /\ count = 0
    /\ exit_code = -1
    /\ log = {}
    /\ stdout = <<>>
    /\ calls = <<>>
    /\ store0 = {}
    /\ out0 = Absent
    /\ added_since_delete = {}

\* Nothing validated, no configuration loaded, no concurrent ingestion.
AsideIdle ==
    /\ candidate = <<>>
    /\ valid = "unset"
    /\ config_file = [kind |-> "none"]
    /\ environ = <<>>
    /\ config = [state |-> "unset"]
    /\ ingests = <<>>

Init == MainIdle /\ AsideIdle

\* A process starts only when none is running.
Ready == pc = "idle"

\* main() up to the dispatch: a new process, its locals fresh.
Begin(c, a, out) ==
    /\ cmd' = c
    /\ args' = a
    /\ out_file' = out
    /\ out0' = out
    /\ store0' = store

NoOutput == stdout' = <<>>

NoIngest ==
    /\ file_lines' = <<>>
    /\ line_num' = 0
    /\ total_domains' = 0
    /\ new_domains' = 0
    /\ invalid_domains' = 0
    /\ duplicate_domains' = 0

\* ---------------------------------------------------------------- main()

\* DataStore.__init__: the ping fails, main returns 1 before any command.
ConnectFail ==
    /\ Ready
    /\ \E c \in {"add", "export", "print", "count", "delete"} :
           /\ Begin(c, NoArgs, Absent)
           /\ NoOutput
           /\ NoIngest
           /\ pc' = "done"
           /\ ret' = "unset"
           /\ count' = 0
           /\ exit_code' = 1
           /\ log' = {"ERROR connect"}
           /\ calls' = <<Call("ping", <<>>, "error", 0)>>
           /\ UNCHANGED <<store, added_since_delete>>
    /\ UNCHANGED aside

\* ------------------------------------------- Project.add_domains_from_file

\* add: the file does not exist; the error is logged and main returns 0.
AddMissingFile ==
    /\ Ready
    /\ \E v \in BOOLEAN :
           /\ Begin("add", [NoArgs EXCEPT !.validate = v], Absent)
           /\ NoOutput
           /\ NoIngest
           /\ pc' = "done"
           /\ ret' = "None"
           /\ count' = 0
           /\ exit_code' = 0
           /\ log' = {"ERROR file does not exist"}
           /\ calls' = <<>>
           /\ UNCHANGED <<store, added_since_delete>>
    /\ UNCHANGED aside

\* add: the file exists and is opened; the loop starts at line 1.
AddStart ==
    /\ Ready
    /\ \E v \in BOOLEAN, f \in Files :
           /\ Begin("add", [NoArgs EXCEPT !.validate = v], Absent)
           /\ file_lines' = f
           /\ line_num' = 1
           /\ total_domains' = 0
           /\ new_domains' = 0
           /\ invalid_domains' = 0
           /\ duplicate_domains' = 0
           /\ NoOutput
           /\ pc' = "ingest"
           /\ ret' = "unset"
           /\ count' = 0
           /\ exit_code' = -1
           /\ log' = {}
           /\ calls' = <<>>
           /\ UNCHANGED <<store, added_since_delete>>
    /\ UNCHANGED aside

\* LoopBody without the skip of blank lines.
LoopBody_no_blank_skip(line, validate, members, outcome, tot, new, inv) ==
    LET domain == Strip(line)
        r == add_domain(members, domain, outcome)
    IN  IF validate /\ ~is_valid_domain(domain)
        THEN [total |-> tot, new |-> new, invalid |-> inv + 1,
              store |-> members, called |-> <<>>,
              logged |-> {"WARNING invalid domain"}]
        ELSE IF r.raised
        THEN [total |-> tot, new |-> new, invalid |-> inv, store |-> r.store,
              called |-> <<Call("sadd", domain, outcome, r.value)>>,
              logged |-> {"ERROR add failed"}]
        ELSE [total |-> tot + 1, new |-> new + r.value, invalid |-> inv,
              store |-> r.store,
              called |-> <<Call("sadd", domain, outcome, r.value)>>, logged |-> {}]

\* LoopBody that counts an invalid line and then submits it all the same
\* (the `continue` after the warning left out).
LoopBody_no_continue(line, validate, members, outcome, tot, new, inv) ==
    LET domain == Strip(line)
        r == add_domain(members, domain, outcome)
        bad == IF validate /\ ~is_valid_domain(domain) THEN 1 ELSE 0
    IN  IF domain = <<>>
        THEN [total |-> tot, new |-> new, invalid |-> inv, store |-> members,
              called |-> <<>>, logged |-> {}]
        ELSE IF r.raised
        THEN [total |-> tot, new |-> new, invalid |-> inv + bad,
              store |-> r.store,
              called |-> <<Call("sadd", domain, outcome, r.value)>>,
              logged |-> {"ERROR add failed"}]
        ELSE [total |-> tot + 1, new |-> new + r.value, invalid |-> inv + bad,
              store |-> r.store,
              called |-> <<Call("sadd", domain, outcome, r.value)>>, logged |-> {}]

\* One pass of the loop body over `line`: what it does to the counters and
\* to the store, and the call it made (<<>> when it made none).
LoopBody(line, validate, members, outcome, tot, new, inv) ==
    LET domain == Strip(line)
        r == add_domain(members, domain, outcome)
    IN  IF domain = <<>>
        THEN [total |-> tot, new |-> new, invalid |-> inv, store |-> members,
              called |-> <<>>, logged |-> {}]
        ELSE IF validate /\ ~is_valid_domain(domain)
        THEN [total |-> tot, new |-> new, invalid |-> inv + 1,
              store |-> members, called |-> <<>>,
              logged |-> {"WARNING invalid domain"}]
        ELSE IF r.raised
        THEN [total |-> tot, new |-> new, invalid |-> inv, store |-> r.store,
              called |-> <<Call("sadd", domain, outcome, r.value)>>,
              logged |-> {"ERROR add failed"}]
        ELSE [total |-> tot + 1, new |-> new + r.value, invalid |-> inv,
              store |-> r.store,
              called |-> <<Call("sadd", domain, outcome, r.value)>>, logged |-> {}]

\* The members of the writes of a history that the store executed (a reply
\* that was lost does not undo the write).
Executed(cs) == {cs[i].member : i \in {j \in 1..Len(cs) : cs[j].outcome # "error"}}

\* The store calls of a history that raised.
Failures(cs) == Cardinality({i \in 1..Len(cs) : cs[i].outcome # "ok"})

\* IngestLine without the handler around add_domain: a RedisError leaves
\* the loop and the method.
IngestLine_no_handler ==
    /\ pc = "ingest"
    /\ line_num <= Len(file_lines)
    /\ \E outcome \in WriteOutcomes :
         LET b == LoopBody(file_lines[line_num], args.validate, store, outcome,
                           total_domains, new_domains, invalid_domains)
             raised == b.called # <<>> /\ outcome # "ok"
         IN  /\ b.called # <<>> \/ outcome = "ok"
             /\ Failures(calls \o b.called) <= MaxFailures
             /\ total_domains' = b.total
             /\ new_domains' = b.new
             /\ invalid_domains' = b.invalid
             /\ store' = b.store
             /\ calls' = calls \o b.called
             /\ log' = log \cup b.logged
             /\ added_since_delete' = added_since_delete \cup Executed(b.called)
             /\ pc' = IF raised THEN "done" ELSE pc
             /\ ret' = IF raised THEN "raised" ELSE ret
             /\ exit_code' = IF raised THEN 1 ELSE exit_code
    /\ line_num' = line_num + 1
    /\ UNCHANGED <<out_file, cmd, args, file_lines, duplicate_domains,
                   count, stdout, store0, out0>>
    /\ UNCHANGED aside

\* add: the loop reads the next line and handles it.
IngestLine ==
    /\ pc = "ingest"
    /\ line_num <= Len(file_lines)
    /\ \E outcome \in WriteOutcomes :
         LET b == LoopBody(file_lines[line_num], args.validate, store, outcome,
                           total_domains, new_domains, invalid_domains)
         IN  /\ b.called # <<>> \/ outcome = "ok"
             /\ Failures(calls \o b.called) <= MaxFailures
             /\ total_domains' = b.total
             /\ new_domains' = b.new
             /\ invalid_domains' = b.invalid
             /\ store' = b.store
             /\ calls' = calls \o b.called
             /\ log' = log \cup b.logged
             /\ added_since_delete' = added_since_delete \cup Executed(b.called)
    /\ line_num' = line_num + 1
    /\ UNCHANGED <<out_file, pc, cmd, args, file_lines, duplicate_domains,
                   ret, count, exit_code, stdout, store0, out0>>
    /\ UNCHANGED aside

\* add: reading the file raises IOError; the outer handler logs it, no
\* report is made, and main returns 0.
IngestReadError ==
    /\ pc = "ingest"
    /\ pc' = "done"
    /\ ret' = "None"
    /\ exit_code' = 0
    /\ log' = log \cup {"ERROR read failed"}
    /\ UNCHANGED <<store, out_file, cmd, args, file_lines, line_num,
                   total_domains, new_domains, invalid_domains,
                   duplicate_domains, count, stdout, calls, store0, out0,
                   added_since_delete>>
    /\ UNCHANGED aside

\* The report after the loop.
Report(tot, new, inv) ==
    [duplicates |-> tot - new,
     logged |-> {"INFO processed"}
                \cup (IF inv > 0 THEN {"WARNING skipped invalid"} ELSE {})]

\* add: the file is exhausted; the report is logged, deduplicate() runs and
\* main returns 0.
IngestFinish ==
    /\ pc = "ingest"
    /\ line_num > Len(file_lines)
    /\ LET r == Report(total_domains, new_domains, invalid_domains)
       IN  /\ duplicate_domains' = r.duplicates
           /\ log' = log \cup r.logged
    /\ deduplicate(store)
    /\ pc' = "done"
    /\ ret' = "None"
    /\ exit_code' = 0
    /\ UNCHANGED <<store, out_file, cmd, args, file_lines, line_num,
                   total_domains, new_domains, invalid_domains, count, stdout,
                   calls, store0, out0, added_since_delete>>
    /\ UNCHANGED aside

\* ------------------------------------------------------ Project.get_domains

\* Project.get_domains: the members decoded; a RedisError is logged and the
\* empty set returned.
get_domains(members, outcome) ==
    LET r == get_raw_domains(members, outcome)
    IN  IF r.raised
        THEN [value |-> {}, logged |-> {"ERROR get failed"}]
        ELSE [value |-> {Decode(b) : b \in r.value}, logged |-> {}]

\* ---------------------------------------------------- Project.export_domains

\* The values of format_type.
FormatText  == <<"t", "e", "x", "t">>
FormatJson  == <<"j", "s", "o", "n">>
FormatUpper == <<"J", "S", "O", "N">>
FormatCsv   == <<"c", "s", "v">>

Formats == {FormatText, FormatJson, FormatUpper, FormatCsv}

\* --format of the parser: choices=['text', 'json'].
FormatChoices == {FormatText, FormatJson}

\* How writing the output file may end: all written and closed, open()
\* raising IOError with the path untouched, or IOError after open() has
\* truncated the file and part of the text reached it.
IoOutcomes == {"ok", "open fails", "write fails"}

\* The file json.dump leaves: the whole document, or a cut-off one.
JsonFile(domains, whole) ==
    [kind |-> "json", domains |-> sorted(domains),
     domain_count |-> Cardinality(domains), project |-> name, whole |-> whole]

\* The file the text branch leaves: the first `written` sorted domains, one
\* per line.
TextFile(domains, written) ==
    [kind |-> "text", domains |-> SubSeq(sorted(domains), 1, written),
     domain_count |-> 0, project |-> <<>>,
     whole |-> written = Cardinality(domains)]

\* export_domains opening the output file before it looks at the members
\* and the format.
export_domains_open_first(members, format_type, outcome, io, written, old) ==
    LET g == get_domains(members, outcome)
        domains == g.value
        fmt == Lower(format_type)
        read == Call("smembers", <<>>, outcome, Cardinality(domains))
    IN  IF domains = {} \/ fmt \notin {FormatJson, FormatText}
        THEN [ret |-> "False", file |-> TextFile(domains, 0),
              called |-> <<read, Call("open", <<>>, "ok", 0)>>,
              logged |-> g.logged \cup {"WARNING no domains"}]
        ELSE IF io # "ok"
        THEN [ret |-> "raised", file |-> TextFile(domains, 0),
              called |-> <<read, Call("open", <<>>, "ok", 0),
                           Call("write", <<>>, "error", 0)>>,
              logged |-> {}]
        ELSE [ret |-> "True",
              file |-> IF fmt = FormatJson THEN JsonFile(domains, TRUE)
                       ELSE TextFile(domains, Cardinality(domains)),
              called |-> <<read, Call("open", <<>>, "ok", 0),
                           Call("write", <<>>, "ok", Cardinality(domains))>>,
              logged |-> {"INFO exported"}]

\* Project.export_domains.  An IOError inside the try reaches the clause
\* "except (IOError, json.JSONEncodeError)"; the json module has no
\* JSONEncodeError, so evaluating the clause raises AttributeError, which
\* leaves the method.
export_domains(members, format_type, outcome, io, written, old) ==
    LET g == get_domains(members, outcome)
        domains == g.value
        fmt == Lower(format_type)
        read == Call("smembers", <<>>, outcome, Cardinality(domains))
    IN  IF domains = {}
        THEN [ret |-> "False", file |-> old, called |-> <<read>>,
              logged |-> g.logged \cup {"WARNING no domains"}]
        ELSE IF fmt \notin {FormatJson, FormatText}
        THEN [ret |-> "False", file |-> old, called |-> <<read>>,
              logged |-> {"ERROR unsupported format"}]
        ELSE IF io = "open fails"
        THEN [ret |-> "raised", file |-> old,
              called |-> <<read, Call("open", <<>>, "error", 0)>>,
              logged |-> {}]
        ELSE IF io = "write fails"
        THEN [ret |-> "raised",
              file |-> IF fmt = FormatJson THEN JsonFile(domains, FALSE)
                       ELSE TextFile(domains, written),
              called |-> <<read, Call("open", <<>>, "ok", 0),
                           Call("write", <<>>, "error", written)>>,
              logged |-> {}]
        ELSE [ret |-> "True",
              file |-> IF fmt = FormatJson THEN JsonFile(domains, TRUE)
                       ELSE TextFile(domains, Cardinality(domains)),
              called |-> <<read, Call("open", <<>>, "ok", 0),
                           Call("write", <<>>, "ok", Cardinality(domains))>>,
              logged |-> {"INFO exported"}]

\* main returning 0 whatever the method returned.
ExitOf_always_zero(ok, raised) == 0

\* What main returns for a Project method's result; an exception leaves
\* main and the handler under __main__ logs it and exits with 1.
ExitOf(ok, raised) == IF raised THEN 1 ELSE IF ok THEN 0 ELSE 1

\* export, from main (the parser admits only its choices) or called on a
\* Project directly.
Export ==
    /\ Ready
    /\ \E format_type \in Formats, caller \in {"main", "api"},
          outcome \in ReadOutcomes, io \in IoOutcomes,
          written \in 0..Cardinality(store), old \in {Absent, OldFile} :
           /\ caller = "main" => format_type \in FormatChoices
           /\ io # "write fails" => written = 0
           /\ cmd' = "export"
           /\ args' = [NoArgs EXCEPT !.format = format_type, !.caller = caller]
           /\ out0' = old
           /\ store0' = store
           /\ LET e == export_domains(store, format_type, outcome, io, written, old)
              IN  /\ out_file' = e.file
                  /\ calls' = e.called
                  /\ ret' = e.ret
                  /\ log' = e.logged \cup (IF e.ret = "raised" /\ caller = "main"
                                           THEN {"ERROR unexpected"} ELSE {})
                  /\ exit_code' = IF caller = "main"
                                  THEN ExitOf(e.ret = "True", e.ret = "raised")
                                  ELSE -1
           /\ NoOutput
           /\ NoIngest
           /\ pc' = "done"
           /\ count' = 0
           /\ UNCHANGED <<store, added_since_delete>>
    /\ UNCHANGED aside

\* ------------------------------------------------------------------ print

\* print: the sorted domains on standard output, or a warning; main
\* returns 0 either way.
PrintCmd ==
    /\ Ready
    /\ \E outcome \in ReadOutcomes :
           /\ Begin("print", NoArgs, Absent)
           /\ LET g == get_domains(store, outcome)
              IN  /\ stdout' = sorted(g.value)
                  /\ log' = g.logged \cup (IF g.value = {}
                                           THEN {"WARNING no domains"} ELSE {})
           /\ calls' = <<Call("smembers", <<>>, outcome,
                               IF outcome = "ok" THEN Cardinality(store) ELSE 0)>>
           /\ NoIngest
           /\ pc' = "done"
           /\ ret' = "set"
           /\ count' = 0
           /\ exit_code' = 0
           /\ UNCHANGED <<store, added_since_delete>>
    /\ UNCHANGED aside

\* ---------------------------------------------------- Project.count_domains

\* count_domains without the existence check: SCARD alone, 0 for no key.
count_domains_no_exists(members, o1, o2) ==
    LET e == project_exists(members, o1)
        c == store_count_domains(members, o2)
        asked == Call("exists", <<>>, o1, IF e.value THEN 1 ELSE 0)
        counted == Call("scard", <<>>, o2, c.value)
    IN  IF e.raised \/ c.raised
        THEN [ret |-> "None", value |-> 0, logged |-> {"ERROR count failed"},
              called |-> <<asked, counted>>]
        ELSE [ret |-> "int", value |-> c.value, logged |-> {"INFO contains"},
              called |-> <<asked, counted>>]

\* Project.count_domains: None for a project that does not exist or when a
\* store call raises, the cardinality otherwise.
count_domains(members, o1, o2) ==
    LET e == project_exists(members, o1)
        c == store_count_domains(members, o2)
        asked == Call("exists", <<>>, o1, IF e.value THEN 1 ELSE 0)
        counted == Call("scard", <<>>, o2, c.value)
    IN  IF e.raised
        THEN [ret |-> "None", value |-> 0, logged |-> {"ERROR count failed"},
              called |-> <<asked>>]
        ELSE IF ~e.value
        THEN [ret |-> "None", value |-> 0, logged |-> {"ERROR does not exist"},
              called |-> <<asked>>]
        ELSE IF c.raised
        THEN [ret |-> "None", value |-> 0, logged |-> {"ERROR count failed"},
              called |-> <<asked, counted>>]
        ELSE [ret |-> "int", value |-> c.value, logged |-> {"INFO contains"},
              called |-> <<asked, counted>>]

\* count: the number on standard output and 0, or 1 when there is none.
CountCmd ==
    /\ Ready
    /\ \E o1 \in ReadOutcomes, o2 \in ReadOutcomes :
           /\ Begin("count", NoArgs, Absent)
           /\ LET c == count_domains(store, o1, o2)
              IN  /\ Len(c.called) = 1 => o2 = "ok"
                  /\ ret' = c.ret
                  /\ count' = c.value
                  /\ log' = c.logged
                  /\ calls' = c.called
                  /\ stdout' = IF c.ret = "int" THEN <<Decimal(c.value)>> ELSE <<>>
                  /\ exit_code' = ExitOf(c.ret # "None", FALSE)
           /\ NoIngest
           /\ pc' = "done"
           /\ UNCHANGED <<store, added_since_delete>>
    /\ UNCHANGED aside

\* ------------------------------------------------------------ Project.delete

\* delete taking every reply of DEL for a success.
delete_ignores_reply(members, outcome) ==
    LET r == delete_project(members, outcome)
    IN  IF r.raised
        THEN [ret |-> "False", store |-> r.store, reply |-> r.value,
              logged |-> {"INFO attempting", "ERROR delete failed"}]
        ELSE [ret |-> "True", store |-> r.store, reply |-> r.value,
              logged |-> {"INFO attempting", "INFO deleted"}]

\* Project.delete: True when DEL removed a key, False when it removed none
\* or raised.
delete(members, outcome) ==
    LET r == delete_project(members, outcome)
    IN  IF r.raised
        THEN [ret |-> "False", store |-> r.store, reply |-> r.value,
              logged |-> {"INFO attempting", "ERROR delete failed"}]
        ELSE IF r.value = 0
        THEN [ret |-> "False", store |-> r.store, reply |-> r.value,
              logged |-> {"INFO attempting", "WARNING did not exist"}]
        ELSE [ret |-> "True", store |-> r.store, reply |-> r.value,
              logged |-> {"INFO attempting", "INFO deleted"}]

\* What the user may type at the prompt.
Responses ==
    {<<"y">>, <<"Y">>, <<"y", "e", "s">>, <<"Y", "E", "S">>,
     <<"Y", "e", "s">>, <<"n">>, <<"n", "o">>, <<>>, <<"y", "e">>,
     <<"y", "e", "s", " ">>}

\* Any answer that starts with y or Y taken for a yes.
Affirmative_prefix(response) ==
    response # <<>> /\ Lower(response)[1] = "y"

\* response.lower() in ['y', 'yes']
Affirmative(response) == Lower(response) \in {<<"y">>, <<"y", "e", "s">>}

\* The line delete prints on success.
DeletedMessage == <<"Project deleted successfully">>

\* delete: the project is deleted, with --confirm or after the user agreed.
DeleteCmd ==
    /\ Ready
    /\ \E confirm \in BOOLEAN, response \in Responses, outcome \in WriteOutcomes :
           /\ confirm => response = <<>>
           /\ ~confirm => Affirmative(response)
           /\ Begin("delete",
                    [NoArgs EXCEPT !.confirm = confirm, !.response = response,
                                   !.stdin = IF confirm THEN "unused" ELSE "line"],
                    Absent)
           /\ LET d == delete(store, outcome)
              IN  /\ store' = d.store
                  /\ ret' = d.ret
                  /\ log' = d.logged
                  /\ stdout' = IF d.ret = "True" THEN DeletedMessage ELSE <<>>
                  /\ exit_code' = ExitOf(d.ret = "True", FALSE)
                  /\ calls' = <<Call("del", <<>>, outcome, d.reply)>>
           /\ added_since_delete' = IF outcome = "error" THEN added_since_delete ELSE {}
           /\ NoIngest
           /\ pc' = "done"
           /\ count' = 0
    /\ UNCHANGED aside

\* delete without --confirm: the user does not agree; nothing is deleted and
\* main returns 0.
DeleteCancelled ==
    /\ Ready
    /\ \E response \in Responses :
           /\ ~Affirmative(response)
           /\ Begin("delete",
                    [NoArgs EXCEPT !.response = response, !.stdin = "line"],
                    Absent)
           /\ NoOutput
           /\ NoIngest
           /\ pc' = "done"
           /\ ret' = "unset"
           /\ count' = 0
           /\ exit_code' = 0
           /\ log' = {"INFO cancelled"}
           /\ calls' = <<>>
           /\ UNCHANGED <<store, added_since_delete>>
    /\ UNCHANGED aside

\* delete without --confirm: standard input is at its end; input() raises
\* EOFError, which leaves main, and the process exits with 1.
DeleteNoInput ==
    /\ Ready
    /\ Begin("delete", [NoArgs EXCEPT !.stdin = "eof"], Absent)
    /\ NoOutput
    /\ NoIngest
    /\ pc' = "done"
    /\ ret' = "unset"
    /\ count' = 0
    /\ exit_code' = 1
    /\ log' = {"ERROR unexpected"}
    /\ calls' = <<>>
    /\ UNCHANGED <<store, added_since_delete>>
    /\ UNCHANGED aside

\* The process ends: its memory is gone, the store stays.
Exit ==
    /\ pc = "done"
    /\ pc' = "idle"
    /\ cmd' = "none"
    /\ args' = NoArgs
    /\ NoIngest
    /\ ret' = "unset"
    /\ count' = 0
    /\ exit_code' = -1
    /\ log' = {}
    /\ stdout' = <<>>
    /\ calls' = <<>>
    /\ store0' = store
    /\ out_file' = Absent
    /\ out0' = Absent
    /\ UNCHANGED <<store, added_since_delete>>
    /\ UNCHANGED aside

Next ==
    \/ Exit
    \/ ConnectFail
    \/ AddMissingFile
    \/ AddStart
    \/ IngestLine
    \/ IngestReadError
    \/ IngestFinish
    \/ Export
    \/ PrintCmd
    \/ CountCmd
    \/ DeleteCmd
    \/ DeleteCancelled
    \/ DeleteNoInput

Spec == Init /\ [][Next]_vars

\* ------------------------------------------- DomainValidator on its own

\* The characters the enumerated inputs are made of: a letter, a digit, the
\* hyphen, the dot, and characters outside the classes of the pattern.
CandidateAlphabet == {"a", "1", "-", ".", "_", " ", "\n"}

\* The string of n times the character c.
Repeat(c, n) == [i \in 1..n |-> c]

\* The longest label the pattern admits: a first character, the middle
\* part and a last character.
LongestLabel == Repeat("a", MaxLabelMiddle + 2)

\* Three longest labels and a last label that brings the string to `len`
\* characters.
LongDomain(len) ==
    LongestLabel \o <<".">> \o LongestLabel \o <<".">> \o LongestLabel
        \o <<".">> \o Repeat("a", len - 3 * (MaxLabelMiddle + 3))

\* Inputs at the limits of the label and of the whole string.
LongCandidates ==
    {LongestLabel \o <<".", "c", "o", "m">>,
     <<"a">> \o LongestLabel \o <<".", "c", "o", "m">>,
     LongDomain(MaxDomainLen),
     LongDomain(MaxDomainLen + 1),
     LongDomain(MaxDomainLen - 1) \o <<"\n">>,
     LongDomain(MaxDomainLen) \o <<"\n">>}

\* The strings is_valid_domain is called with.
Candidates ==
    UNION {[1..n -> CandidateAlphabet] : n \in 0..MaxCandidateLen}
        \cup LongCandidates

\* A caller holds a string and has not called the validator yet.
InitValidator ==
    /\ MainIdle
    /\ candidate \in Candidates
    /\ valid = "unset"
    /\ config_file = [kind |-> "none"]
    /\ environ = <<>>
    /\ config = [state |-> "unset"]
    /\ ingests = <<>>

\* DomainValidator.is_valid_domain(candidate) returns.
Validate ==
    /\ valid = "unset"
    /\ valid' = IF is_valid_domain(candidate) THEN "True" ELSE "False"
    /\ UNCHANGED <<store, out_file, pc, cmd, args, file_lines, line_num,
                   total_domains, new_domains, invalid_domains,
                   duplicate_domains, ret, count, exit_code, log, stdout,
                   calls, store0, out0, added_since_delete, candidate, config_file,
                   environ, config, ingests>>

NextValidator == Validate

SpecValidator == InitValidator /\ [][NextValidator]_vars

\* ----------------------------------------------------------- ConfigManager

\* default_config as _load_config builds it.
DefaultConfig ==
    [redis   |-> [host |-> "localhost", port |-> 6379, db |-> 0,
                  max_connections |-> 10],
     logging |-> [level |-> "INFO",
                  format |-> "%(asctime)s - %(name)s - %(levelname)s - %(message)s"]]

\* The values a config file gives to the keys of its sections.
FileRedis == [host |-> "test-redis", port |-> 6380, db |-> 1,
              max_connections |-> 20]

FileLogging == [level |-> "DEBUG"]

\* A section the defaults do not have.
ExtraSection == [retries |-> 3]

\* The mapping d cut down to the keys of K.
Restrict(d, K) == [k \in K |-> d[k]]

\* What json.load returns for a file that holds an object of objects: any
\* of the sections, each with any of its keys.
ParsedFiles ==
    UNION {{[sec \in S |-> IF sec = "redis" THEN r
                           ELSE IF sec = "logging" THEN l
                           ELSE ExtraSection] :
                r \in {Restrict(FileRedis, K) : K \in SUBSET DOMAIN FileRedis},
                l \in {Restrict(FileLogging, K) : K \in SUBSET DOMAIN FileLogging}} :
           S \in SUBSET {"redis", "logging", "extra"}}

\* The file at the path given with --config: "none" (no path given),
\* "missing" (the path does not exist), "unreadable" (open or read raises
\* IOError), "unparsable" (json.load raises JSONDecodeError), "undecodable"
\* (its bytes are not text in the encoding open() uses: the read raises
\* UnicodeDecodeError), "not a mapping" (valid JSON that is no object:
\* .items() raises AttributeError), "section not a mapping" (a known
\* section whose value is no object: dict.update raises TypeError), or
\* "parsed" with the sections it holds.
ConfigFiles ==
    {[kind |-> k] : k \in {"none", "missing", "unreadable", "unparsable",
                           "undecodable", "not a mapping",
                           "section not a mapping"}}
        \cup {[kind |-> "parsed", sections |-> f] : f \in ParsedFiles}

\* The values of REDIS_HOST.
HostTexts == {"", "env-redis"}

\* The values of REDIS_PORT.
PortTexts ==
    {<<>>, <<"6", "3", "8", "1">>, <<"a", "b", "c">>, <<" ", "8", "1", " ">>,
     <<"-", "1">>, <<"8", "_", "1">>, <<"1", ".", "5">>, <<"+", " ", "7">>}

\* os.environ: each of the two variables set or not.
Environments ==
    UNION {{[v \in S |-> IF v = "REDIS_HOST" THEN h ELSE p] :
                h \in HostTexts, p \in PortTexts} :
           S \in SUBSET {"REDIS_HOST", "REDIS_PORT"}}

\* The number a decimal digit stands for.
DigitValue(c) == CHOOSE n \in 0..9 : DigitSeq[n + 1] = c

\* The number a string of decimal digits stands for.
RECURSIVE DigitsValue(_)
DigitsValue(ds) ==
    IF ds = <<>> THEN 0
    ELSE 10 * DigitsValue(SubSeq(ds, 1, Len(ds) - 1)) + DigitValue(ds[Len(ds)])

\* int(text): whitespace around the number is dropped, a sign may lead, and
\* single underscores may stand between digits; anything else raises
\* ValueError.
IntOf(text) ==
    LET t == Strip(text)
        signed == t # <<>> /\ t[1] \in {"+", "-"}
        body == IF signed THEN Tail(t) ELSE t
        wellformed ==
            /\ body # <<>>
            /\ \A i \in 1..Len(body) : body[i] \in Digits \cup {"_"}
            /\ body[1] \in Digits
            /\ body[Len(body)] \in Digits
            /\ \A i \in 1..(Len(body) - 1) : ~(body[i] = "_" /\ body[i + 1] = "_")
        magnitude == DigitsValue(SelectSeq(body, LAMBDA c : c \in Digits))
    IN  [raised |-> ~wellformed,
         value  |-> IF ~wellformed THEN 0
                    ELSE IF signed /\ t[1] = "-" THEN 0 - magnitude
                    ELSE magnitude]

\* dict.update: the keys of v overwrite or extend d.
Update(d, v) ==
    [k \in DOMAIN d \cup DOMAIN v |-> IF k \in DOMAIN v THEN v[k] ELSE d[k]]

\* The loop over file_config.items(): a known section is updated key by
\* key, an unknown one is added as it is.
MergeFile(cfg, sections) ==
    [sec \in DOMAIN cfg \cup DOMAIN sections |->
        IF sec \notin DOMAIN sections THEN cfg[sec]
        ELSE IF sec \in DOMAIN cfg THEN Update(cfg[sec], sections[sec])
        ELSE sections[sec]]

\* ConfigManager._load_config: the defaults, then the file, then the
\* environment; the exceptions the handler does not name leave the method.
load_config(file, env) ==
    LET merged == IF file.kind = "parsed"
                  THEN MergeFile(DefaultConfig, file.sections)
                  ELSE DefaultConfig
        fileLog == IF file.kind \in {"unreadable", "unparsable"}
                   THEN {"WARNING failed to load config file"} ELSE {}
        hostSet == "REDIS_HOST" \in DOMAIN env /\ env["REDIS_HOST"] # ""
        withHost == IF hostSet
                    THEN [merged EXCEPT !.redis.host = env["REDIS_HOST"]]
                    ELSE merged
        portSet == "REDIS_PORT" \in DOMAIN env /\ env["REDIS_PORT"] # <<>>
        n == IntOf(env["REDIS_PORT"])
        withPort == IF portSet /\ ~n.raised
                    THEN [withHost EXCEPT !.redis.port = n.value]
                    ELSE withHost
        portLog == IF portSet /\ n.raised
                   THEN {"WARNING invalid REDIS_PORT"} ELSE {}
    IN  IF file.kind \in {"undecodable", "not a mapping", "section not a mapping"}
        THEN [state |-> "raised"]
        ELSE [state |-> "loaded", value |-> withPort,
              logged |-> fileLog \cup portLog]

\* ConfigManager.get_redis_config
get_redis_config(cfg) == cfg.value.redis

\* A process is about to build its ConfigManager.
InitConfig ==
    /\ MainIdle
    /\ candidate = <<>>
    /\ valid = "unset"
    /\ config_file \in ConfigFiles
    /\ environ \in Environments
    /\ config = [state |-> "unset"]
    /\ ingests = <<>>

\* ConfigManager.__init__: self.config = self._load_config(config_file)
LoadConfig ==
    /\ config.state = "unset"
    /\ config' = load_config(config_file, environ)
    /\ UNCHANGED <<store, out_file, pc, cmd, args, file_lines, line_num,
                   total_domains, new_domains, invalid_domains,
                   duplicate_domains, ret, count, exit_code, log, stdout,
                   calls, store0, out0, added_since_delete, candidate, valid, config_file,
                   environ, ingests>>

NextConfig == LoadConfig

SpecConfig == InitConfig /\ [][NextConfig]_vars

\* ------------------------------------------- two ingestions side by side

\* Two processes run `add` on the same project at the same time.
Procs == {1, 2}

\* The lines of their input files.
ConcurrentPool == {LineExample, LineTest}

ConcurrentFiles == UNION {[1..n -> ConcurrentPool] : n \in 0..MaxConcurrentLines}

\* The members of the project when the two start.
InitialStores == {{}, {Encode(Strip(LineExample))}}

\* The characters of a file, its lines one after the other.
RECURSIVE Contents(_)
Contents(f) == IF f = <<>> THEN <<>> ELSE Head(f) \o Contents(Tail(f))

\* The locals of add_domains_from_file when its loop starts.
Started(f, v) ==
    [pc |-> "ingest", file_lines |-> f, validate |-> v, line_num |-> 1,
     total_domains |-> 0, new_domains |-> 0, invalid_domains |-> 0,
     duplicate_domains |-> 0, calls |-> <<>>, log |-> {}]

\* Both processes have opened their files; neither has read a line.  The
\* two are alike, so process 1 is the one whose file comes first in the
\* order of strings.
InitConcurrent ==
    /\ store \in InitialStores
    /\ store0 = store
    /\ added_since_delete = {Decode(b) : b \in store}
    /\ ingests \in [Procs -> {Started(f, TRUE) : f \in ConcurrentFiles}]
    /\ ~StrLess(Contents(ingests[2].file_lines), Contents(ingests[1].file_lines))
    /\ out_file = Absent
    /\ pc = "idle"
    /\ cmd = "none"
    /\ args = NoArgs
    /\ file_lines = <<>>
    /\ line_num = 0
    /\ total_domains = 0
    /\ new_domains = 0
    /\ invalid_domains = 0
    /\ duplicate_domains = 0
    /\ ret = "unset"
    /\ count = 0
    /\ exit_code = -1
    /\ log = {}
    /\ stdout = <<>>
    /\ calls = <<>>
    /\ out0 = Absent
    /\ candidate = <<>>
    /\ valid = "unset"
    /\ config_file = [kind |-> "none"]
    /\ environ = <<>>
    /\ config = [state |-> "unset"]

\* The calls both processes have made.
CallsOfBoth == ingests[1].calls \o ingests[2].calls

\* ConcurrentLine with the reply of SADD computed from the members the
\* project had when the two started (a check made before the add, outside
\* the store).
ConcurrentLine_stale_reply(p) ==
    LET me == ingests[p]
    IN  /\ me.pc = "ingest"
        /\ me.line_num <= Len(me.file_lines)
        /\ \E outcome \in WriteOutcomes :
             LET b == LoopBody(me.file_lines[me.line_num], me.validate, store,
                               outcome, me.total_domains, me.new_domains,
                               me.invalid_domains)
                 old == LoopBody(me.file_lines[me.line_num], me.validate, store0,
                                 outcome, me.total_domains, me.new_domains,
                                 me.invalid_domains)
             IN  /\ b.called # <<>> \/ outcome = "ok"
                 /\ Failures(CallsOfBoth \o b.called) <= MaxFailures
                 /\ store' = b.store
                 /\ added_since_delete' = added_since_delete \cup Executed(b.called)
                 /\ ingests' = [ingests EXCEPT ![p] =
                        [me EXCEPT !.total_domains = old.total,
                                   !.new_domains = old.new,
                                   !.invalid_domains = old.invalid,
                                   !.calls = me.calls \o old.called,
                                   !.log = me.log \cup old.logged,
                                   !.line_num = me.line_num + 1]]
        /\ UNCHANGED <<out_file, pc, cmd, args, file_lines, line_num,
                       total_domains, new_domains, invalid_domains,
                       duplicate_domains, ret, count, exit_code, log, stdout,
                       calls, store0, out0, candidate, valid, config_file,
                       environ, config>>

\* Process p reads its next line and handles it; the add it makes is one
\* step of the store.
ConcurrentLine(p) ==
    LET me == ingests[p]
    IN  /\ me.pc = "ingest"
        /\ me.line_num <= Len(me.file_lines)
        /\ \E outcome \in WriteOutcomes :
             LET b == LoopBody(me.file_lines[me.line_num], me.validate, store,
                               outcome, me.total_domains, me.new_domains,
                               me.invalid_domains)
             IN  /\ b.called # <<>> \/ outcome = "ok"
                 /\ Failures(CallsOfBoth \o b.called) <= MaxFailures
                 /\ store' = b.store
                 /\ added_since_delete' = added_since_delete \cup Executed(b.called)
                 /\ ingests' = [ingests EXCEPT ![p] =
                        [me EXCEPT !.total_domains = b.total,
                                   !.new_domains = b.new,
                                   !.invalid_domains = b.invalid,
                                   !.calls = me.calls \o b.called,
                                   !.log = me.log \cup b.logged,
                                   !.line_num = me.line_num + 1]]
        /\ UNCHANGED <<out_file, pc, cmd, args, file_lines, line_num,
                       total_domains, new_domains, invalid_domains,
                       duplicate_domains, ret, count, exit_code, log, stdout,
                       calls, store0, out0, candidate, valid, config_file,
                       environ, config>>

\* Process p has read its whole file: it logs its report and ends.
ConcurrentFinish(p) ==
    LET me == ingests[p]
        r == Report(me.total_domains, me.new_domains, me.invalid_domains)
    IN  /\ me.pc = "ingest"
        /\ me.line_num > Len(me.file_lines)
        /\ deduplicate(store)
        /\ ingests' = [ingests EXCEPT ![p] =
               [me EXCEPT !.pc = "done",
                          !.duplicate_domains = r.duplicates,
                          !.log = me.log \cup r.logged]]
        /\ UNCHANGED <<store, out_file, pc, cmd, args, file_lines, line_num,
                       total_domains, new_domains, invalid_domains,
                       duplicate_domains, ret, count, exit_code, log, stdout,
                       calls, store0, out0, added_since_delete, candidate, valid,
                       config_file, environ, config>>

NextConcurrent ==
    \/ \E p \in Procs : ConcurrentLine(p)
    \/ \E p \in Procs : ConcurrentFinish(p)

SpecConcurrent == InitConcurrent /\ [][NextConcurrent]_vars

\* ------------------------------------------------------------ properties

\* The text of the lines of the scenarios.
Example == Strip(LineExample)
Test    == Strip(LineTest)
Bad     == Strip(LineBad)

\* The elements of a sequence.
Range(q) == {q[i] : i \in 1..Len(q)}

\* The store calls of a history with operation op.
CallsOf(cs, op) == {i \in 1..Len(cs) : cs[i].op = op}

\* A step of the ingestion loop that sends SADD for a domain the project
\* holds adds nothing to new_domains and leaves the members as they are.
C1_AddStep ==
    ( /\ pc = "ingest"
      /\ Len(calls') = Len(calls) + 1
      /\ calls'[Len(calls')].op = "sadd"
      /\ Encode(calls'[Len(calls')].member) \in store )
    => /\ new_domains' = new_domains
       /\ calls'[Len(calls')].reply = 0
       /\ Cardinality(store') = Cardinality(store)

\* From an absent project, an ingestion whose two adds are of one domain and
\* both succeed leaves one member, the second add counting 0.
C1_Twice ==
    ( /\ cmd = "add"
      /\ store0 = {}
      /\ Len(calls) = 2
      /\ calls[1].member = calls[2].member
      /\ calls[1].outcome = "ok"
      /\ calls[2].outcome = "ok" )
    => /\ Cardinality(store) = 1
       /\ calls[2].reply = 0
       /\ new_domains = 1

\* C1: adding is idempotent.  Adding a domain the project already holds
\* contributes 0 to the "new" counter and leaves the cardinality unchanged,
\* in the same ingestion or a later one; from an absent project, adding one
\* domain twice gives cardinality 1.
C1_Idempotent == [][C1_AddStep]_vars /\ []C1_Twice

\* C1 witness: a later ingestion has just added again a domain an earlier
\* one added, and it counted as not new.
C1_Witness ==
    /\ cmd = "add"
    /\ Encode(Example) \in store0
    /\ Len(calls) = 2
    /\ calls[1].member = Example /\ calls[1].outcome = "ok"
    /\ calls[2].member = Example /\ calls[2].outcome = "ok"
    /\ new_domains = 0
    /\ store = store0

\* The command was `count` and Project.count_domains has returned.
CountDone == pc = "done" /\ cmd = "count" /\ CallsOf(calls, "exists") # {}

\* C2: Project.count_domains returns None, never 0, when the store reports
\* that the key does not exist, and the store's cardinality when the key
\* exists; None is also what a failed store call gives, so a number is
\* returned only for an existing project.
C2_CountAbsentMarker ==
    CountDone =>
        /\ (calls[1].outcome = "ok" /\ store0 = {}) => ret = "None"
        /\ (calls[1].outcome = "ok" /\ store0 # {} /\ Len(calls) = 2
              /\ calls[2].outcome = "ok")
               => (ret = "int" /\ count = Cardinality(store0))
        /\ ret \in {"None", "int"}
        /\ ret = "int" => (store0 # {} /\ Failures(calls) = 0)
        /\ (ret = "None" /\ Failures(calls) = 0) => store0 = {}

\* C2 witness: count on a project that does not exist returned None, with no
\* store call failing.
C2_Witness ==
    /\ CountDone
    /\ store0 = {}
    /\ calls[1].outcome = "ok"
    /\ ret = "None"
    /\ exit_code = 1

\* The command was `delete` and Project.delete has returned.
DeleteDone == pc = "done" /\ cmd = "delete" /\ CallsOf(calls, "del") # {}

\* C3: Project.delete returns True exactly when DEL reports a key removed,
\* which without a store error is exactly when the project existed; on a
\* project that never existed it returns False and the project stays
\* absent; a store error gives False, not an exception.
C3_DeleteResult ==
    DeleteDone =>
        /\ ret \in {"True", "False"}
        /\ ret = "True" <=> (calls[1].outcome = "ok" /\ calls[1].reply >= 1)
        /\ calls[1].outcome = "ok" => (ret = "True" <=> store0 # {})
        /\ store0 = {} => (ret = "False" /\ store = {})
        /\ calls[1].outcome # "ok" => ret = "False"

\* C3 witness: delete on a project that does not exist returned False.
C3_Witness ==
    /\ DeleteDone
    /\ store0 = {}
    /\ calls[1].outcome = "ok"
    /\ ret = "False"
    /\ store = {}

\* A line the loop submits: not blank, and valid when validation is on.
Submitted(line, validate) ==
    Strip(line) # <<>> /\ (validate => is_valid_domain(Strip(line)))

\* A line the loop rejects: not blank, validation on, not valid.
Rejected(line, validate) ==
    Strip(line) # <<>> /\ validate /\ ~is_valid_domain(Strip(line))

\* The domains of the submitted lines among the first n, in file order.
RECURSIVE SubmittedUpTo(_, _, _)
SubmittedUpTo(lines, n, validate) ==
    IF n <= 0 THEN <<>>
    ELSE SubmittedUpTo(lines, n - 1, validate)
            \o (IF Submitted(lines[n], validate) THEN <<Strip(lines[n])>>
                ELSE <<>>)

\* The ingestion read the whole file and logged its report.
IngestFinished == pc = "done" /\ cmd = "add" /\ "INFO processed" \in log

\* The lines "example.com", "example.com", "bad_domain", validation on.
ScenarioFile == <<LineExample, LineExample, LineBad>>

\* C4: ingest accounting is exact.  With no store call failing, total is the
\* number of non-blank lines that pass validation (all non-blank lines
\* without validation), invalid the number of non-blank lines that fail it,
\* new the number of distinct submitted domains the project did not hold,
\* duplicates total minus new, and blank lines count toward none; the
\* scenario file on an absent project gives new 1, duplicates 1, invalid 1
\* and one member.
C4_Accounting ==
    (IngestFinished /\ Failures(calls) = 0) =>
        LET n == Len(file_lines)
            v == args.validate
            sub == {i \in 1..n : Submitted(file_lines[i], v)}
            rej == {i \in 1..n : Rejected(file_lines[i], v)}
            nonblank == {i \in 1..n : Strip(file_lines[i]) # <<>>}
            fresh == {Encode(Strip(file_lines[i])) : i \in sub} \ store0
        IN  /\ total_domains = Cardinality(sub)
            /\ invalid_domains = Cardinality(rej)
            /\ ~v => invalid_domains = 0
            /\ new_domains = Cardinality(fresh)
            /\ duplicate_domains = total_domains - new_domains
            /\ total_domains + invalid_domains = Cardinality(nonblank)
            /\ (file_lines = ScenarioFile /\ v /\ store0 = {})
                  => /\ new_domains = 1
                     /\ duplicate_domains = 1
                     /\ invalid_domains = 1
                     /\ Cardinality(store) = 1

\* C4 witness: the scenario file has been ingested into an absent project
\* with validation on.
C4_Witness ==
    /\ IngestFinished
    /\ Failures(calls) = 0
    /\ file_lines = ScenarioFile
    /\ args.validate
    /\ store0 = {}
    /\ new_domains = 1
    /\ duplicate_domains = 1
    /\ invalid_domains = 1

\* The members of the calls of a history, in order.
MembersOf(cs) == [i \in 1..Len(cs) |-> cs[i].member]

IsSadd(c) == c.op = "sadd"

\* The calls of a history that are adds, in order.
Sadds(cs) == SelectSeq(cs, IsSadd)

\* C5: during an ingestion the store's add is called exactly once per line
\* read so far that is not blank and (with validation on) valid, in file
\* order, and for no other line; so with validation on every member the
\* ingestion added is a valid domain, and with validation off every
\* non-blank line is sent.
C5_OnlyValidSent ==
    (cmd = "add" /\ pc \in {"ingest", "done"}) =>
        /\ MembersOf(Sadds(calls))
              = SubmittedUpTo(file_lines, line_num - 1, args.validate)
        /\ args.validate =>
              /\ \A c \in Range(Sadds(calls)) : is_valid_domain(c.member)
              /\ \A m \in store \ store0 : is_valid_domain(Decode(m))
        /\ \A c \in Range(Sadds(calls)) : c.member # <<>>

\* C5 witness: an ingestion with validation on has read an invalid line, a
\* blank line and a valid one, and called the store once.
C5_Witness ==
    /\ IngestFinished
    /\ args.validate
    /\ file_lines = <<LineBad, LineBlank, LineExample>>
    /\ MembersOf(Sadds(calls)) = <<Example>>

\* The sum of the replies of a history.
RECURSIVE SumReplies(_)
SumReplies(cs) ==
    IF cs = <<>> THEN 0 ELSE cs[1].reply + SumReplies(Tail(cs))

\* While an ingestion runs and after it: no exception has left the method,
\* total_domains counts the adds that returned and new_domains sums their
\* replies, and a finished ingestion has read every line and sent every
\* submitted one.
C6_Counted ==
    cmd = "add" =>
        /\ ret # "raised"
        /\ total_domains
              = Cardinality({i \in 1..Len(calls) : calls[i].outcome = "ok"})
        /\ new_domains = SumReplies(calls)
        /\ \A i \in 1..Len(calls) : calls[i].outcome # "ok" => calls[i].reply = 0
        /\ IngestFinished =>
              /\ line_num = Len(file_lines) + 1
              /\ MembersOf(Sadds(calls))
                    = SubmittedUpTo(file_lines, Len(file_lines), args.validate)
              /\ exit_code = 0

\* A step of the loop whose add raised leaves the counters as they were and
\* goes on to the next line.
C6_SkipAndContinue ==
    ( /\ pc = "ingest"
      /\ Len(calls') = Len(calls) + 1
      /\ calls'[Len(calls')].outcome # "ok" )
    => /\ pc' = "ingest"
       /\ line_num' = line_num + 1
       /\ total_domains' = total_domains
       /\ new_domains' = new_domains
       /\ ret' = "unset"
       /\ exit_code' = -1

\* The loop is left only at the end of the file, with the report, or by an
\* error reading the file.
C6_LeavesAtEnd ==
    (pc = "ingest" /\ pc' # "ingest")
    => /\ pc' = "done"
       /\ ret' = "None"
       /\ \/ "ERROR read failed" \in log'
          \/ line_num = Len(file_lines) + 1 /\ "INFO processed" \in log'

\* C6: ingestion tolerates a store failure on a line.  The line counts
\* neither as submitted nor as new, the loop goes on (every later submitted
\* line is sent), the ingestion reaches the end of the file and reports, and
\* no RedisError leaves add_domains_from_file.
C6_FailureTolerant ==
    /\ []C6_Counted
    /\ [][C6_SkipAndContinue]_vars
    /\ [][C6_LeavesAtEnd]_vars

\* C6 witness: the add of the first line failed, the second line was
\* submitted and counted, and the report was made.
C6_Witness ==
    /\ IngestFinished
    /\ Len(calls) >= 2
    /\ calls[1].outcome = "error"
    /\ calls[2].outcome = "ok"
    /\ total_domains = 1
    /\ new_domains = 1

\* Project.export_domains was called and is over.
ExportDone == pc = "done" /\ cmd = "export" /\ CallsOf(calls, "smembers") # {}

\* The formats export_domains knows, whatever the case of their letters.
KnownFormats == {FormatText, FormatJson, FormatUpper}

\* C7: export fails closed.  With no member to export (an absent project,
\* or a failed read of the store) or with a format that is neither text nor
\* json, export_domains returns False and the file at the output path is
\* neither created nor changed.
C7_ExportFailsClosed ==
    (ExportDone /\ (store0 = {} \/ calls[1].outcome # "ok"
                      \/ args.format \notin KnownFormats))
        => /\ ret = "False"
           /\ out_file = out0
           /\ CallsOf(calls, "open") = {}

\* C7 witness: an export of a project with members in an unknown format,
\* to a path that held a file, returned False and the file is as it was.
C7_Witness ==
    /\ ExportDone
    /\ store0 # {}
    /\ calls[1].outcome = "ok"
    /\ args.format = FormatCsv
    /\ out0 = OldFile
    /\ out_file = OldFile
    /\ ret = "False"

\* A reader of the output path takes the file for a finished export: lines
\* of text, one domain each, or a JSON document that parses.
LooksComplete(f) ==
    \/ f.kind = "text" /\ Len(f.domains) >= 1
    \/ f.kind = "json" /\ f.whole

\* The export met an IOError opening or writing the output file.
ExportIoFailed ==
    /\ ExportDone
    /\ \E i \in 1..Len(calls) :
          calls[i].op \in {"open", "write"} /\ calls[i].outcome = "error"

\* C8: when opening or writing the export file fails for a project with
\* members, export_domains returns False instead of raising, and the output
\* path holds no partly written file that looks like a complete export.
C8_ExportWriteFailure ==
    ExportIoFailed =>
        /\ ret = "False"
        /\ (out_file # out0 => ~LooksComplete(out_file))

\* "y" and "yes" in every letter case.
AnyCaseYes ==
    {<<"y">>, <<"Y">>}
        \cup {<<a, b, c>> : a \in {"y", "Y"}, b \in {"e", "E"}, c \in {"s", "S"}}

\* main ran the delete command (the store was reachable).
DeleteCommandDone ==
    pc = "done" /\ cmd = "delete" /\ CallsOf(calls, "ping") = {}

\* C9: without --confirm the delete command issues DEL only when the user
\* answered y or yes (any letter case); after any other answer no DEL is
\* issued, the members are unchanged and the exit code is 0.  With --confirm
\* DEL is issued without a prompt.
C9_DeleteConfirmation ==
    DeleteCommandDone =>
        /\ CallsOf(calls, "del") # {}
              => \/ args.confirm
                 \/ args.stdin = "line" /\ args.response \in AnyCaseYes
        /\ (args.stdin = "line" /\ args.response \notin AnyCaseYes)
              => (calls = <<>> /\ store = store0 /\ exit_code = 0)
        /\ (args.stdin = "line" /\ args.response \in AnyCaseYes)
              => CallsOf(calls, "del") = {1}
        /\ args.confirm
              => (args.stdin = "unused" /\ CallsOf(calls, "del") = {1})

\* C9 witness: the user answered "yes " to the prompt for a project with
\* members; nothing was deleted and the exit code is 0.
C9_Witness ==
    /\ DeleteCommandDone
    /\ ~args.confirm
    /\ args.stdin = "line"
    /\ args.response = <<"y", "e", "s", " ">>
    /\ store0 # {}
    /\ store = store0
    /\ exit_code = 0

\* The log records of level ERROR.
ErrorRecords ==
    {"ERROR connect", "ERROR file does not exist", "ERROR add failed",
     "ERROR read failed", "ERROR get failed", "ERROR unsupported format",
     "ERROR unexpected", "ERROR count failed", "ERROR does not exist",
     "ERROR delete failed"}

\* A store call, or the reading or writing of a file, failed while the
\* command ran.
HadError ==
    \/ \E i \in 1..Len(calls) : calls[i].outcome # "ok"
    \/ "ERROR file does not exist" \in log
    \/ "ERROR read failed" \in log

\* main ran to its end, started from the command line.
MainDone == pc = "done" /\ args.caller = "main"

\* C10 as claimed: for every command, a store or file error while the
\* command runs gives a non-zero exit code; 0 is returned only without such
\* an error.
C10_ErrorsExitNonZero == (MainDone /\ HadError) => exit_code # 0

\* C10 as amended: for export, count and delete a store or file error while
\* the command runs gives exit code 1, and so does a failed connection at
\* startup for every command; add and print log the error and exit with 0.
C10_ExitCodes ==
    MainDone =>
        /\ (cmd \in {"export", "count", "delete"} /\ HadError) => exit_code = 1
        /\ CallsOf(calls, "ping") # {} => exit_code = 1
        /\ (cmd \in {"add", "print"} /\ CallsOf(calls, "ping") = {})
              => /\ exit_code = 0
                 /\ HadError => log \cap ErrorRecords # {}

\* C10 witness: add on a file that does not exist has exited with 0.
C10_Witness ==
    /\ MainDone
    /\ cmd = "add"
    /\ "ERROR file does not exist" \in log
    /\ exit_code = 0

\* A label as the domain-name grammar has it: 1 to 63 letters, digits and
\* hyphens, no hyphen first or last.
LabelOfGrammar(l) ==
    /\ Len(l) >= 1
    /\ Len(l) <= 63
    /\ \A i \in 1..Len(l) : l[i] \in Letters \cup Digits \cup {"-"}
    /\ l[1] # "-"
    /\ l[Len(l)] # "-"

\* A domain as the grammar has it: not empty, at most 253 characters, two
\* or more labels with one dot between neighbours.
DomainOfGrammar(s) ==
    /\ s # <<>>
    /\ Len(s) <= 253
    /\ LET parts == SplitDots(s)
       IN  /\ Len(parts) >= 2
           /\ \A i \in 1..Len(parts) : LabelOfGrammar(parts[i])

\* C11: is_valid_domain accepts a string if and only if it is a domain of
\* the grammar (not empty, at most 253 characters, two or more labels of 1
\* to 63 letters, digits and hyphens with no hyphen at either end, single
\* dots between them); every other string, one with a line break anywhere
\* in it included, is rejected.
C11_AcceptsExactlyDomains ==
    valid # "unset" => ((valid = "True") <=> DomainOfGrammar(candidate))

\* What the validator does accept: the domains of the grammar, and those
\* followed by one line break when the whole is within 253 characters.
AcceptedByPattern(s) ==
    \/ DomainOfGrammar(s)
    \/ /\ s # <<>>
       /\ Len(s) <= 253
       /\ s[Len(s)] = "\n"
       /\ DomainOfGrammar(SubSeq(s, 1, Len(s) - 1))

\* is_valid_domain accepts exactly the strings of AcceptedByPattern.
C11_AcceptsUpToLineBreak ==
    valid # "unset" => ((valid = "True") <=> AcceptedByPattern(candidate))

\* A domain followed by a line break has been accepted.
C11_LineBreakAccepted ==
    /\ valid = "True"
    /\ candidate = <<"a", ".", "a", "\n">>

\* The redis section of the config file, empty when the file gave none.
FileSettings ==
    IF config_file.kind = "parsed" /\ "redis" \in DOMAIN config_file.sections
    THEN config_file.sections["redis"]
    ELSE <<>>

\* The file's value of a store setting, the default when the file has none.
FromFile(key, default) ==
    IF key \in DOMAIN FileSettings THEN FileSettings[key] ELSE default

\* REDIS_HOST is set to a host.
HostOverride == "REDIS_HOST" \in DOMAIN environ /\ environ["REDIS_HOST"] # ""

\* REDIS_PORT is set to an integer.
PortOverride ==
    "REDIS_PORT" \in DOMAIN environ /\ ~IntOf(environ["REDIS_PORT"]).raised

\* Every store setting of a loaded configuration comes from the environment
\* when that overrides it, else from the file when the file has the key,
\* else from the defaults; a port override that is no integer changes
\* nothing.
C12_Precedence ==
    config.state = "loaded" =>
        LET r == get_redis_config(config)
        IN  /\ r.host = IF HostOverride THEN environ["REDIS_HOST"]
                        ELSE FromFile("host", "localhost")
            /\ r.port = IF PortOverride THEN IntOf(environ["REDIS_PORT"]).value
                        ELSE FromFile("port", 6379)
            /\ r.db = FromFile("db", 0)
            /\ r.max_connections = FromFile("max_connections", 10)

\* The files that cannot be read or cannot be parsed.
BadFiles == {"unreadable", "unparsable", "undecodable"}

\* C12: the effective configuration is defaults < config file <
\* environment: each store setting is the environment override when one is
\* set and valid, else the file's value when the file has the key, else
\* the default (localhost, 6379, 0, 10); a file that cannot be parsed or
\* read leaves the defaults in place without failing, and a port override
\* that is no integer is ignored.
C12_EffectiveConfiguration ==
    /\ C12_Precedence
    /\ (config.state # "unset" /\ config_file.kind \in BadFiles) =>
           /\ config.state = "loaded"
           /\ (environ = <<>>) => config.value = DefaultConfig

\* A file that is not text in the encoding of the platform made the
\* constructor raise.
C12_UndecodableRaises ==
    /\ config_file.kind = "undecodable"
    /\ config.state = "raised"

\* The environment overrides the host, the file gives the port and the
\* port override is no integer.
C12_MixedSources ==
    /\ config.state = "loaded"
    /\ HostOverride
    /\ "REDIS_PORT" \in DOMAIN environ
    /\ ~PortOverride
    /\ DOMAIN FileSettings = {"port"}
    /\ get_redis_config(config) =
           [host |-> "env-redis", port |-> 6380, db |-> 0, max_connections |-> 10]

\* What the three reads of the project report now, when they do not fail.
ReportedExists == project_exists(store, "ok").value
ReportedCount(members) == count_domains(members, "ok", "ok")
ReportedListing == get_domains(store, "ok").value

\* The project exists exactly when a domain has been added since the last
\* delete; its count is then the number of the domains added since, and
\* otherwise count gives None and the listing is empty.  The commands that
\* have just reported say the same.
C13_State ==
    /\ ReportedExists <=> added_since_delete # {}
    /\ ReportedListing = added_since_delete
    /\ added_since_delete # {} =>
           /\ ReportedCount(store).ret = "int"
           /\ ReportedCount(store).value = Cardinality(added_since_delete)
           /\ ReportedCount(store).value >= 1
    /\ added_since_delete = {} =>
           /\ ReportedCount(store).ret = "None"
           /\ ReportedListing = {}
    /\ (CountDone /\ \A i \in 1..Len(calls) : calls[i].outcome = "ok") =>
           /\ (ret = "int") <=> (added_since_delete # {})
           /\ ret = "int" => count = Cardinality(added_since_delete)
    /\ (pc = "done" /\ cmd = "print" /\ calls[1].outcome = "ok") =>
           stdout = sorted(added_since_delete)

\* A step of an ingestion does not lower the count of a project that
\* exists, and a delete the store executed leaves a project that does not
\* exist, has no count and lists nothing.
C13_Step ==
    /\ (pc = "ingest" /\ ReportedCount(store).ret = "int") =>
           /\ ReportedCount(store').ret = "int"
           /\ ReportedCount(store').value >= ReportedCount(store).value
    /\ (pc = "idle" /\ cmd' = "delete" /\ calls' # <<>>
          /\ calls'[1].outcome # "error") =>
           /\ ~project_exists(store', "ok").value
           /\ ReportedCount(store').ret = "None"
           /\ get_domains(store', "ok").value = {}

\* C13: after any sequence of ingestions and deletes of one process, the
\* project exists if and only if a domain has been added since the last
\* delete; while it exists its reported count is the number of distinct
\* domains added since the last delete (at least 1, never lowered by an
\* add); after a delete the existence check reports absent, count returns
\* None and the listing is empty.
C13_ProjectLifecycle == []C13_State /\ [][C13_Step]_vars

\* A delete has just removed a project that two ingested domains had made.
C13_Witness ==
    /\ pc = "done"
    /\ cmd = "delete"
    /\ ret = "True"
    /\ store0 = {Encode(Example), Encode(Test)}
    /\ added_since_delete = {}
    /\ store = {}

\* Both ingestions have ended.
BothDone == ingests # <<>> /\ \A p \in Procs : ingests[p].pc = "done"

\* The adds of process p that came back with "new" for domain d.
CountedNew(p, d) ==
    {i \in 1..Len(ingests[p].calls) :
        /\ ingests[p].calls[i].member = d
        /\ ingests[p].calls[i].outcome = "ok"
        /\ ingests[p].calls[i].reply = 1}

\* The domains of the lines of p's file that its loop submits.
SubmittedBy(p) ==
    Range(SubmittedUpTo(ingests[p].file_lines, Len(ingests[p].file_lines),
                        ingests[p].validate))

\* C14: when two ingestions of one project have run with their adds
\* interleaved in any order, every domain was counted as new at most once
\* over both, each new counter is the number of adds that came back as
\* new, the two new counters sum to the growth of the project from before
\* both to after both (every add having been one step of the store, its
\* reply not lost), and the members at the end are the members at the
\* start and every submitted domain, whatever the interleaving was.
C14_ConcurrentIngestions ==
    BothDone =>
        /\ \A d \in Range(MembersOf(CallsOfBoth)) :
               Cardinality(CountedNew(1, d)) + Cardinality(CountedNew(2, d)) <= 1
        /\ \A p \in Procs :
               ingests[p].new_domains = SumReplies(ingests[p].calls)
        /\ ingests[1].new_domains + ingests[2].new_domains
               <= Cardinality(store) - Cardinality(store0)
        /\ (\A i \in 1..Len(CallsOfBoth) : CallsOfBoth[i].outcome # "lost") =>
               ingests[1].new_domains + ingests[2].new_domains
                   = Cardinality(store) - Cardinality(store0)
        /\ store = store0 \cup {Encode(d) : d \in Executed(CallsOfBoth)}
        /\ (\A i \in 1..Len(CallsOfBoth) : CallsOfBoth[i].outcome = "ok") =>
               store = store0 \cup {Encode(d) : d \in SubmittedBy(1) \cup SubmittedBy(2)}

\* Both ingestions sent example.com and test.com to an empty project with
\* no failure: each domain was new to one of them only, and the two
\* counters sum to 2.
C14_Witness ==
    /\ BothDone
    /\ store0 = {}
    /\ \A p \in Procs : ingests[p].file_lines = <<LineExample, LineTest>>
    /\ \A i \in 1..Len(CallsOfBoth) : CallsOfBoth[i].outcome = "ok"
    /\ ingests[1].new_domains = 1
    /\ ingests[2].new_domains = 1
    /\ store = {Encode(Example), Encode(Test)}

====
